---------------------------- MODULE Spec2Model ----------------------------
(***************************************************************************)
(* A model of CasADi's GetNonzeros node (symbolic/mx/getnonzeros.cpp):     *)
(* construction (constructor, assign, init), simplification and printing,  *)
(* the numeric hooks evaluateD and propagateSparsity, which gather from /  *)
(* scatter to flat nonzero buffers through the table assigns_, the symbolic *)
(* hook evaluateMX and the code generation generateOperation; and of the   *)
(* callbacks of CvodesSimulator (interfaces/sundials/cvodes_simulator.cpp). *)
(***************************************************************************)
EXTENDS Integers, Sequences, FiniteSets, TLC

VARIABLES
  sparsity,   \* the node's output sparsity (MXNode::sparsity(), set by the constructor)
  dep_,       \* the node's dependencies (MXNode::dep_), a sequence of MX
  assigns_,   \* GetNonzeros::assigns_: source nonzero of every output nonzero
  assigns2_,  \* GetNonzeros::assigns2_: (input nonzero, output nonzero) pairs built by init
  ex,         \* the caller's expression handed to simplifyMe
  stream,     \* what the last call wrote to its output stream
  op,         \* the member function called last
  arg,        \* what is recorded of that call's arguments
  ret,        \* how that call ended: "ok" or the casadi_assert that threw
  input,      \* input[0]  of the last loaded sweep: [present, data]
  output,     \* output[0]
  fwdSeed,    \* fwdSeed[d][0], one buffer per forward direction
  fwdSens,    \* fwdSens[d][0]
  adjSeed,    \* adjSeed[d][0], one buffer per adjoint direction
  adjSens,    \* adjSens[d][0]
  oob,        \* some hook has addressed a buffer outside its bounds
  sweep,      \* what the driver's buffers hold: "none", "numeric", "taint",
              \* "symbolic" (MX expressions) or "emit" (code generation)
  gen,        \* CodeGenerator: the pool of integer constants added so far
  mem         \* CvodesSimMemory: what the CVODES callbacks keep of their calls

nodeVars == <<sparsity, dep_, assigns_, assigns2_>>
callVars == <<ex, stream, op, arg, ret>>
bufVars  == <<input, output, fwdSeed, fwdSens, adjSeed, adjSens, oob, sweep,
              gen, mem>>
vars     == <<sparsity, dep_, assigns_, assigns2_, ex, stream, op, arg, ret,
              input, output, fwdSeed, fwdSens, adjSeed, adjSens, oob, sweep,
              gen, mem>>

---------------------------------------------------------------------------
(* Bounds of the model *)

\* forward / adjoint directions one evaluateD call is given at most
MaxDir == 2

---------------------------------------------------------------------------
(* CRSSparsity: shape and the nonzeros' (row, col) in storage order *)

Sp(r, c, nz) == [size1 |-> r, size2 |-> c, nz |-> nz]

\* CRSSparsity::size(): the number of nonzeros
Nnz(sp) == Len(sp.nz)

\* CRSSparsity::dense()
Dense(sp) == Nnz(sp) = sp.size1 * sp.size2

\* CRSSparsity::diagonal(): square, one nonzero per row, each on the diagonal
Diagonal(sp) ==
  /\ sp.size1 = sp.size2
  /\ Nnz(sp) = sp.size1
  /\ \A k \in 1..Nnz(sp) : sp.nz[k] = <<k - 1, k - 1>>

Empty12 == Sp(1, 2, <<>>)
Dense11 == Sp(1, 1, <<  <<0, 0>>  >>)
Dense12 == Sp(1, 2, <<  <<0, 0>>, <<0, 1>>  >>)
Dense21 == Sp(2, 1, <<  <<0, 0>>, <<1, 0>>  >>)
Diag22  == Sp(2, 2, <<  <<0, 0>>, <<1, 1>>  >>)
Dense13 == Sp(1, 3, <<  <<0, 0>>, <<0, 1>>, <<0, 2>>  >>)

\* the sparsity patterns nodes are constructed with
Patterns == {Empty12, Dense11, Dense12, Dense21, Diag22}

\* the largest nonzero count among a set of patterns
MaxNnz(ps) == CHOOSE n \in 0..8 :
                /\ \E p \in ps : Nnz(p) = n
                /\ \A p \in ps : Nnz(p) <= n

\* the nonzero indices callers put in a table for these patterns: 0 .. MaxNnz,
\* the last one beyond every pattern's nonzeros
Indices(ps) == 0..MaxNnz(ps)

\* the index tables callers pass as inz: every length up to MaxNnz
Tables(ps) == UNION {[1..n -> Indices(ps)] : n \in 0..MaxNnz(ps)}

---------------------------------------------------------------------------
(* MX: a reference-counted expression; the null MX refers to no node *)

NullMX == [null |-> TRUE, sp |-> Sp(0, 0, <<>>)]
MXOf(p) == [null |-> FALSE, sp |-> p]

\* the expressions callers pass to assign as d
DepMXs == {NullMX, MXOf(Dense11), MXOf(Dense12), MXOf(Dense21)}

\* MXNode::ndep()
ndep == Len(dep_)

\* MXNode::addDependency: "Add the node if it is not already a dependency"
addDependency(deps, d) ==
  IF \E i \in 1..Len(deps) : deps[i] = d THEN deps ELSE Append(deps, d)

---------------------------------------------------------------------------
(* Construction *)

Zeros(n) == [k \in 1..n |-> 0]

\* a call of which no argument is recorded
NoArg == [none |-> TRUE]

\* GetNonzeros::GetNonzeros(sp): setSparsity(sp); assigns_.resize(sp.size())
Constructor(sp) ==
  /\ sparsity = sp
  /\ dep_ = <<>>
  /\ assigns_ = Zeros(Nnz(sp))
  /\ assigns2_ = <<>>

\* assign checking the dependency only, not the length of inz
AssignChecksNoSize(d, inz) ==
  IF d.null THEN "assert(!d.isNull())" ELSE "ok"

\* the casadi_assert of assign that fails, "ok" when none does
AssignChecks(d, inz) ==
  IF d.null THEN "assert(!d.isNull())"
  ELSE IF Len(inz) # Nnz(sparsity) THEN "assert(inz.size()==size())"
  ELSE "ok"

\* the loop of assign: assigns_[k] = inz[k] for k < inz.size()
SaveMapping(old, inz) ==
  [k \in 1..Len(old) |-> IF k <= Len(inz) THEN inz[k] ELSE old[k]]

\* assign without its quick return on an empty inz
AssignNoQuickReturn(d, inz) ==
  /\ op' = "assign"
  /\ arg' = [dnull |-> d.null, len |-> Len(inz)]
  /\ ret' = AssignChecks(d, inz)
  /\ IF AssignChecks(d, inz) = "ok"
       THEN /\ dep_' = addDependency(dep_, d)
            /\ assigns_' = SaveMapping(assigns_, inz)
            /\ UNCHANGED <<sparsity, assigns2_>>
       ELSE UNCHANGED nodeVars
  /\ stream' = <<>>
  /\ UNCHANGED ex
  /\ UNCHANGED bufVars

\* GetNonzeros::assign(d, inz, add)
Assign(d, inz) ==
  /\ op' = "assign"
  /\ arg' = [dnull |-> d.null, len |-> Len(inz)]
  /\ IF inz = <<>>
       THEN /\ ret' = "ok"
            /\ UNCHANGED nodeVars
       ELSE /\ ret' = AssignChecks(d, inz)
            /\ IF AssignChecks(d, inz) = "ok"
                 THEN /\ dep_' = addDependency(dep_, d)
                      /\ assigns_' = SaveMapping(assigns_, inz)
                      /\ UNCHANGED <<sparsity, assigns2_>>
                 ELSE UNCHANGED nodeVars
  /\ stream' = <<>>
  /\ UNCHANGED ex
  /\ UNCHANGED bufVars

\* the loop of init: assigns2_.push_back(pair(assigns_[onz], onz))
Pairs(a) == [k \in 1..Len(a) |-> <<a[k], k - 1>>]

\* GetNonzeros::init()
InitNode ==
  /\ op' = "init"
  /\ arg' = NoArg
  /\ IF ndep = 1
       THEN /\ ret' = "ok"
            /\ assigns2_' = Pairs(assigns_)
       ELSE /\ ret' = "assert(ndep()==1)"
            /\ UNCHANGED assigns2_
  /\ stream' = <<>>
  /\ UNCHANGED <<sparsity, dep_, assigns_, ex>>
  /\ UNCHANGED bufVars

---------------------------------------------------------------------------
(* Identity simplification *)

\* the loop of isIdentity: false at the first k with assigns_[k] != k
RECURSIVE InOrderFrom(_, _)
InOrderFrom(a, k) ==
  IF k > Len(a) THEN TRUE
  ELSE IF a[k] # k - 1 THEN FALSE
  ELSE InOrderFrom(a, k + 1)

\* isIdentity without the comparison of the two sparsity patterns
isIdentityNoSparsity == InOrderFrom(assigns_, 1)

\* GetNonzeros::isIdentity(), of a node with a dependency
isIdentity ==
  IF ~(sparsity = dep_[1].sp) THEN FALSE
  ELSE InOrderFrom(assigns_, 1)

\* GetNonzeros::simplifyMe(ex): ex becomes dep(0) when the node is the identity.
\* dep(0) of a node without dependencies is dep_.at(0), which throws.
SimplifyMe ==
  /\ op' = "simplifyMe"
  /\ arg' = NoArg
  /\ IF ndep = 0
       THEN /\ ret' = "out_of_range"
            /\ UNCHANGED ex
       ELSE /\ ret' = "ok"
            /\ ex' = IF isIdentity THEN "dep(0)" ELSE ex
  /\ stream' = <<>>
  /\ UNCHANGED nodeVars
  /\ UNCHANGED bufVars

\* the graph hands simplifyMe the expression that refers to this node
TakeExpression ==
  /\ ex # "this"
  /\ op' = "MX(this)"
  /\ arg' = NoArg
  /\ ret' = "ok"
  /\ ex' = "this"
  /\ stream' = <<>>
  /\ UNCHANGED nodeVars
  /\ UNCHANGED bufVars

---------------------------------------------------------------------------
(* Debug rendering *)

\* the "nonzeros: [" loop of printPart: every assigns_[k] followed by ","
RECURSIVE PrintNonzeros(_, _)
PrintNonzeros(a, k) ==
  IF k > Len(a) THEN <<>>
  ELSE <<ToString(a[k]), ",">> \o PrintNonzeros(a, k + 1)

\* what printPart(stream, part) writes
printPart(part) ==
  IF ndep = 0
    THEN <<"sparse(", ToString(sparsity.size1), ",", ToString(sparsity.size2), ")">>
  ELSE IF sparsity.size1 * sparsity.size2 = 1 /\ Nnz(sparsity) = 1 /\ ndep = 1
    THEN IF part = 1 /\ dep_[1].sp.size1 * dep_[1].sp.size2 > 1
           THEN <<"[", ToString(assigns_[1]), "]">>
           ELSE <<>>
  ELSE IF part = 0
    THEN <<"mapping(",
           IF Dense(sparsity) THEN "dense"
           ELSE IF Diagonal(sparsity) THEN "diagonal"
           ELSE "sparse",
           " ", ToString(sparsity.size1), "-by-", ToString(sparsity.size2),
           " matrix, dependencies: [">>
  ELSE IF part = ndep
    THEN <<"], nonzeros: [">> \o PrintNonzeros(assigns_, 1) \o <<"])">>
  ELSE <<",">>

\* GetNonzeros::printPart, called for the parts 0 .. ndep() of a node
PrintPart(part) ==
  /\ op' = "printPart"
  /\ arg' = [part |-> part]
  /\ ret' = "ok"
  /\ stream' = printPart(part)
  /\ UNCHANGED nodeVars
  /\ UNCHANGED ex
  /\ UNCHANGED bufVars

---------------------------------------------------------------------------
(* Buffers of a sweep *)

\* no CVODES memory block has been set up
NoMemory == [none |-> TRUE]

Absent == [present |-> FALSE, data |-> <<>>]
Buffer(data) == [present |-> TRUE, data |-> data]

NoBuffers ==
  /\ input = Absent
  /\ output = Absent
  /\ fwdSeed = <<>>
  /\ fwdSens = <<>>
  /\ adjSeed = <<>>
  /\ adjSens = <<>>
  /\ oob = FALSE
  /\ sweep = "none"
  /\ gen = <<>>
  /\ mem = NoMemory

---------------------------------------------------------------------------
(* Construction of a node: the constructor, then assign, init, simplifyMe  *)
(* and printPart in any order                                              *)

Init ==
  /\ \E sp \in Patterns : Constructor(sp)
  /\ ex = "this"
  /\ stream = <<>>
  /\ op = "GetNonzeros"
  /\ arg = NoArg
  /\ ret = "ok"
  /\ NoBuffers

Next ==
  \/ \E d \in DepMXs, inz \in Tables(Patterns) : Assign(d, inz)
  \/ InitNode
  \/ SimplifyMe
  \/ TakeExpression
  \/ \E part \in 0..ndep : PrintPart(part)

Spec == Init /\ [][Next]_vars

---------------------------------------------------------------------------
(* Numeric propagation: evaluateD (evaluateGen<double>) and                *)
(* propagateSparsity on the flat nonzero buffers of one sweep.             *)
(*                                                                         *)
(* The hooks index the input-side buffers with assigns_[k] unchecked. An   *)
(* index outside the buffer is undefined behaviour: a read there yields    *)
(* whatever lies beyond the buffer (junk, any of OobVals), a write there   *)
(* lands outside the buffers of the sweep, and oob records that it         *)
(* happened.                                                               *)

\* assigns_[k] addresses a cell of an input-side buffer
InBounds(i, data) == 0 <= i /\ i < Len(data)

\* what a read beyond a buffer may yield
OobVals == {0, 77}

\* some assigns_[k] is outside data
AnyOob(data) == \E k \in 1..Len(assigns_) : ~InBounds(assigns_[k], data)

\* a gather that copies position k to position k, ignoring assigns_
GatherByPosition(data, junk) ==
  [k \in 1..Len(assigns_) |-> IF InBounds(k - 1, data) THEN data[k] ELSE junk]

\* the gather loop: out->data()[k] = in->data()[assigns_[k]] for every k
Gather(data, junk) ==
  [k \in 1..Len(assigns_) |->
     IF InBounds(assigns_[k], data) THEN data[assigns_[k] + 1] ELSE junk]

\* the primal step without its test of input[0]
PrimalNoInputCheck(junk) ==
  IF output.present THEN Buffer(Gather(input.data, junk)) ELSE output

\* "Nondifferentiated outputs": output[0] after the step
Primal(junk) ==
  IF input.present /\ output.present
    THEN Buffer(Gather(input.data, junk))
    ELSE output

\* a forward step that reads the first direction's seed for every direction
ForwardFirstSeed(d, junk) ==
  IF fwdSeed[d].present /\ fwdSens[d].present
    THEN Buffer(Gather(fwdSeed[1].data, junk))
    ELSE fwdSens[d]

\* "Forward sensitivities": fwdSens[d][0] after the step of direction d
Forward(d, junk) ==
  IF fwdSeed[d].present /\ fwdSens[d].present
    THEN Buffer(Gather(fwdSeed[d].data, junk))
    ELSE fwdSens[d]

\* the adjoint loop from output nonzero k on:
\*   adjSens->data()[assigns_[k]] += adjSeed->data()[k]; adjSeed->data()[k] = 0
RECURSIVE AdjointLoop(_, _, _)
AdjointLoop(sens, seed, k) ==
  IF k > Len(assigns_) THEN [sens |-> sens, seed |-> seed]
  ELSE AdjointLoop(
         IF InBounds(assigns_[k], sens)
           THEN [sens EXCEPT ![assigns_[k] + 1] = @ + seed[k]]
           ELSE sens,
         [seed EXCEPT ![k] = 0],
         k + 1)

\* the adjoint loop with = in place of +=
RECURSIVE AdjointLoopOverwrite(_, _, _)
AdjointLoopOverwrite(sens, seed, k) ==
  IF k > Len(assigns_) THEN [sens |-> sens, seed |-> seed]
  ELSE AdjointLoopOverwrite(
         IF InBounds(assigns_[k], sens)
           THEN [sens EXCEPT ![assigns_[k] + 1] = seed[k]]
           ELSE sens,
         [seed EXCEPT ![k] = 0],
         k + 1)

\* the adjoint loop that leaves the seed as it is
RECURSIVE AdjointLoopNoClear(_, _, _)
AdjointLoopNoClear(sens, seed, k) ==
  IF k > Len(assigns_) THEN [sens |-> sens, seed |-> seed]
  ELSE AdjointLoopNoClear(
         IF InBounds(assigns_[k], sens)
           THEN [sens EXCEPT ![assigns_[k] + 1] = @ + seed[k]]
           ELSE sens,
         seed,
         k + 1)

\* an adjoint step that overwrites the input adjoint
AdjointOverwrite(d) ==
  IF adjSeed[d].present /\ adjSens[d].present
    THEN AdjointLoopOverwrite(adjSens[d].data, adjSeed[d].data, 1)
    ELSE [sens |-> adjSens[d].data, seed |-> adjSeed[d].data]

\* an adjoint step that does not clear the seed
AdjointNoClear(d) ==
  IF adjSeed[d].present /\ adjSens[d].present
    THEN AdjointLoopNoClear(adjSens[d].data, adjSeed[d].data, 1)
    ELSE [sens |-> adjSens[d].data, seed |-> adjSeed[d].data]

\* "Adjoint sensitivities": the data of adjSens[d][0] and adjSeed[d][0] after
\* the step of direction d
Adjoint(d) ==
  IF adjSeed[d].present /\ adjSens[d].present
    THEN AdjointLoop(adjSens[d].data, adjSeed[d].data, 1)
    ELSE [sens |-> adjSens[d].data, seed |-> adjSeed[d].data]

\* a buffer with new data, a null pointer staying null
WithData(buf, data) == IF buf.present THEN Buffer(data) ELSE buf

\* some step of this evaluateD call indexes outside its input-side buffer
EvaluateOob ==
  \/ input.present /\ output.present /\ AnyOob(input.data)
  \/ \E d \in 1..Len(fwdSens) :
       fwdSeed[d].present /\ fwdSens[d].present /\ AnyOob(fwdSeed[d].data)
  \/ \E d \in 1..Len(adjSeed) :
       adjSeed[d].present /\ adjSens[d].present /\ AnyOob(adjSens[d].data)

\* whether this call follows a call of the same hook on the same buffers
CallNo(name) == IF op = name THEN 2 ELSE 1

\* GetNonzeros::evaluateD = evaluateGen<double,...>, called by the driver of
\* a numeric sweep; input holds one entry per dependency
EvaluateD ==
  /\ sweep = "numeric"
  /\ op' = "evaluateD"
  /\ arg' = [call |-> CallNo("evaluateD")]
  /\ stream' = <<>>
  /\ IF ndep # 1
       THEN /\ ret' = "assert(input.size()==1)"
            /\ UNCHANGED bufVars
       ELSE /\ ret' = "ok"
            /\ \E junk \in OobVals :
                 /\ output' = Primal(junk)
                 /\ fwdSens' = [d \in 1..Len(fwdSens) |-> Forward(d, junk)]
            /\ adjSens' = [d \in 1..Len(adjSeed) |->
                             WithData(adjSens[d], Adjoint(d).sens)]
            /\ adjSeed' = [d \in 1..Len(adjSeed) |->
                             WithData(adjSeed[d], Adjoint(d).seed)]
            /\ oob' = (oob \/ EvaluateOob)
            /\ UNCHANGED <<input, fwdSeed>>
  /\ UNCHANGED <<sweep, gen, mem>>
  /\ UNCHANGED nodeVars
  /\ UNCHANGED ex

\* bvec_t operator|, on the numbers whose binary digits are the taint bits
RECURSIVE BitOr(_, _)
BitOr(a, b) ==
  IF a = 0 THEN b
  ELSE IF b = 0 THEN a
  ELSE (IF a % 2 = 1 \/ b % 2 = 1 THEN 1 ELSE 0) + 2 * BitOr(a \div 2, b \div 2)

\* the reverse loop of propagateSparsity from output nonzero k on:
\*   inputd[assigns_[k]] |= outputd[k]; outputd[k] = 0
RECURSIVE TaintReverseLoop(_, _, _)
TaintReverseLoop(ind, outd, k) ==
  IF k > Len(assigns_) THEN [ind |-> ind, outd |-> outd]
  ELSE TaintReverseLoop(
         IF InBounds(assigns_[k], ind)
           THEN [ind EXCEPT ![assigns_[k] + 1] = BitOr(@, outd[k])]
           ELSE ind,
         [outd EXCEPT ![k] = 0],
         k + 1)

\* the reverse loop with += in place of |=
RECURSIVE TaintReverseLoopPlus(_, _, _)
TaintReverseLoopPlus(ind, outd, k) ==
  IF k > Len(assigns_) THEN [ind |-> ind, outd |-> outd]
  ELSE TaintReverseLoopPlus(
         IF InBounds(assigns_[k], ind)
           THEN [ind EXCEPT ![assigns_[k] + 1] = @ + outd[k]]
           ELSE ind,
         [outd EXCEPT ![k] = 0],
         k + 1)

\* a reverse taint step that adds instead of or-ing
TaintReversePlus == TaintReverseLoopPlus(input.data, output.data, 1)

\* the reverse variant of propagateSparsity on present buffers
TaintReverse == TaintReverseLoop(input.data, output.data, 1)

\* GetNonzeros::propagateSparsity(input, output, fwd), called by the driver
\* of a taint sweep
PropagateSparsity(fwd) ==
  /\ sweep = "taint"
  /\ op' = "propagateSparsity"
  /\ arg' = [fwd |-> fwd, call |-> CallNo("propagateSparsity")]
  /\ stream' = <<>>
  /\ IF ndep # 1
       THEN /\ ret' = "assert(input.size()==1)"
            /\ UNCHANGED <<input, output, oob>>
       ELSE /\ ret' = "ok"
            /\ IF input.present /\ output.present
                 THEN /\ IF fwd
                           THEN /\ \E junk \in OobVals :
                                     output' = Buffer(Gather(input.data, junk))
                                /\ UNCHANGED input
                           ELSE /\ input' = Buffer(TaintReverse.ind)
                                /\ output' = Buffer(TaintReverse.outd)
                      /\ oob' = (oob \/ AnyOob(input.data))
                 ELSE UNCHANGED <<input, output, oob>>
  /\ UNCHANGED <<fwdSeed, fwdSens, adjSeed, adjSens, sweep, gen, mem>>
  /\ UNCHANGED nodeVars
  /\ UNCHANGED ex

---------------------------------------------------------------------------
(* The sweeps the hooks are checked on: a node built by the constructor,   *)
(* one assign and init, and the buffers the driver hands it, each sized by *)
(* the sparsity it belongs to and each possibly absent (a null pointer).   *)

\* output sparsities and dependencies of the nodes that are evaluated
NumPatterns == {Dense11, Dense12, Dense13}
NumDeps == {MXOf(Dense11), MXOf(Dense12), MXOf(Dense13)}
NumIndices == Indices({d.sp : d \in NumDeps})

\* a value no sweep computes, left in a result buffer by earlier use
Stale(n) == [k \in 1..n |-> 99]

\* the primal input 10, 20, 30, ...
PrimalData(n) == [i \in 1..n |-> 10 * i]
\* the forward seed of direction d: 100 d + 1, 100 d + 2, ...
SeedData(d, n) == [i \in 1..n |-> 100 * d + i]
\* the adjoint seed of direction d: d, 2 d, 4 d, ...
AdjSeedData(d, n) == [k \in 1..n |-> d * 2 ^ (k - 1)]
\* the input adjoint of direction d before the sweep: 100 d, 200 d, ...
AdjSensData(d, n) == [i \in 1..n |-> 100 * d * i]
\* taint words: one bit of its own per cell (from bit `first` on), or the
\* same bit 0 in every cell
TaintData(own, first, n) ==
  [i \in 1..n |-> IF own THEN 2 ^ (first + i - 1) ELSE 1]

Opt(present, data) == IF present THEN Buffer(data) ELSE Absent

\* a node as the constructor, assign(d, inz) and init leave it
Constructed(sp, d, inz) ==
  /\ sparsity = sp
  /\ dep_ = addDependency(<<>>, d)
  /\ assigns_ = SaveMapping(Zeros(Nnz(sp)), inz)
  /\ assigns2_ = Pairs(SaveMapping(Zeros(Nnz(sp)), inz))

NoDirections(seed, sens) == seed = <<>> /\ sens = <<>>

\* a sweep with the primal buffers only
PrimalSweep(nin, nout) ==
  /\ \E pin, pout \in BOOLEAN :
       /\ input = Opt(pin, PrimalData(nin))
       /\ output = Opt(pout, Stale(nout))
  /\ NoDirections(fwdSeed, fwdSens)
  /\ NoDirections(adjSeed, adjSens)

\* a sweep with 1 .. MaxDir forward directions
ForwardSweep(nin, nout) ==
  /\ input = Absent
  /\ output = Absent
  /\ \E n \in 1..MaxDir :
       \E pseed, psens \in [1..n -> BOOLEAN] :
         /\ fwdSeed = [d \in 1..n |-> Opt(pseed[d], SeedData(d, nin))]
         /\ fwdSens = [d \in 1..n |-> Opt(psens[d], Stale(nout))]
  /\ NoDirections(adjSeed, adjSens)

\* a sweep with 1 .. MaxDir adjoint directions
AdjointSweep(nin, nout) ==
  /\ input = Absent
  /\ output = Absent
  /\ NoDirections(fwdSeed, fwdSens)
  /\ \E n \in 1..MaxDir :
       \E pseed, psens \in [1..n -> BOOLEAN] :
         /\ adjSeed = [d \in 1..n |-> Opt(pseed[d], AdjSeedData(d, nout))]
         /\ adjSens = [d \in 1..n |-> Opt(psens[d], AdjSensData(d, nin))]

\* a sweep with the primal buffers, one forward and one adjoint direction
MixedSweep(nin, nout) ==
  \E p \in [1..6 -> BOOLEAN] :
    /\ input = Opt(p[1], PrimalData(nin))
    /\ output = Opt(p[2], Stale(nout))
    /\ fwdSeed = <<Opt(p[3], SeedData(1, nin))>>
    /\ fwdSens = <<Opt(p[4], Stale(nout))>>
    /\ adjSeed = <<Opt(p[5], AdjSeedData(1, nout))>>
    /\ adjSens = <<Opt(p[6], AdjSensData(1, nin))>>

\* a taint sweep: input and output hold bvec_t words
TaintSweep(nin, nout) ==
  /\ \E pin, pout, ownin, ownout \in BOOLEAN :
       /\ input = Opt(pin, TaintData(ownin, 0, nin))
       /\ output = Opt(pout, TaintData(ownout, 3, nout))
  /\ NoDirections(fwdSeed, fwdSens)
  /\ NoDirections(adjSeed, adjSens)

\* the buffers of one sweep, for nin input and nout output nonzeros
Sweeps(nin, nout) ==
  \/ sweep = "numeric" /\ PrimalSweep(nin, nout)
  \/ sweep = "numeric" /\ ForwardSweep(nin, nout)
  \/ sweep = "numeric" /\ AdjointSweep(nin, nout)
  \/ sweep = "numeric" /\ MixedSweep(nin, nout)
  \/ sweep = "taint" /\ TaintSweep(nin, nout)

\* the node is either fresh from the constructor (no dependency, so a hook
\* is handed an empty input vector) or assigned and initialized
InitNum ==
  /\ \E sp \in NumPatterns :
       \/ /\ Constructor(sp)
          /\ op = "GetNonzeros"
          /\ Sweeps(0, Nnz(sp))
       \/ \E d \in NumDeps, inz \in [1..Nnz(sp) -> NumIndices] :
            /\ Constructed(sp, d, inz)
            /\ op = "init"
            /\ Sweeps(Nnz(d.sp), Nnz(sp))
  /\ oob = FALSE
  /\ gen = <<>>
  /\ mem = NoMemory
  /\ ex = "this"
  /\ stream = <<>>
  /\ arg = NoArg
  /\ ret = "ok"

NextNum ==
  \/ EvaluateD
  \/ \E fwd \in BOOLEAN : PropagateSparsity(fwd)

SpecNum == InitNum /\ [][NextNum]_vars

---------------------------------------------------------------------------
(* Symbolic re-derivation, evaluateMX: the triplets of the surviving       *)
(* nonzeros. Vectors indexed from 0 in the code are sequences indexed from *)
(* 1 here; their entries (nonzero indices, elements) stay 0-based.         *)

\* CRSSparsity::col(): the column of every nonzero
col(sp) == [k \in 1..Nnz(sp) |-> sp.nz[k][2]]

\* CRSSparsity::getRow(): the row of every nonzero
getRow(sp) == [k \in 1..Nnz(sp) |-> sp.nz[k][1]]

\* el_wanted[k] = orow[assigns2_[k].second] + ocol[assigns2_[k].second]*osp.size1()
el_wanted(osp, pairs) ==
  [k \in 1..Len(pairs) |->
     getRow(osp)[pairs[k][2] + 1] + col(osp)[pairs[k][2] + 1] * osp.size1]

\* the counting loop from pair k on: inz_count[it->first+1]++
RECURSIVE CountPass(_, _, _)
CountPass(inz_count, pairs, k) ==
  IF k > Len(pairs) THEN inz_count
  ELSE CountPass([inz_count EXCEPT ![pairs[k][1] + 1] = @ + 1], pairs, k + 1)

\* the cumsum loop from i on: inz_count[i+1] += inz_count[i], for i < n
RECURSIVE CumsumPass(_, _, _)
CumsumPass(inz_count, n, i) ==
  IF i >= n THEN inz_count
  ELSE CumsumPass([inz_count EXCEPT ![i + 1] = @ + inz_count[i]], n, i + 1)

\* the placement loop without the increment of the slot it has filled
RECURSIVE PlacePassNoIncrement(_, _, _, _)
PlacePassNoIncrement(order, inz_count, pairs, k) ==
  IF k >= Len(pairs) THEN order
  ELSE PlacePassNoIncrement(
         [order EXCEPT ![inz_count[pairs[k + 1][1]] + 1] = k],
         inz_count, pairs, k + 1)

\* the placement loop from k on: assigns2_order[inz_count[assigns2_[k].first]++] = k
RECURSIVE PlacePass(_, _, _, _)
PlacePass(order, inz_count, pairs, k) ==
  IF k >= Len(pairs) THEN order
  ELSE PlacePass(
         [order EXCEPT ![inz_count[pairs[k + 1][1]] + 1] = k],
         [inz_count EXCEPT ![pairs[k + 1][1]] = @ + 1],
         pairs, k + 1)

\* assigns2_order for a dependency of n nonzeros: inz_count has the n + 1
\* entries 0..n, all zero at first
assigns2_order(pairs, n) ==
  PlacePass([k \in 1..Len(pairs) |-> 0],
            CumsumPass(CountPass([i \in 0..n |-> 0], pairs, 1), n, 0),
            pairs, 0)

\* el_known[k] = irow[inz_k] + icol[inz_k]*isp.size1(),
\* inz_k = assigns2_[assigns2_order[k]].first
el_known(isp, pairs, order) ==
  [k \in 1..Len(pairs) |->
     LET inz_k == pairs[order[k] + 1][1]
     IN  getRow(isp)[inz_k + 1] + col(isp)[inz_k + 1] * isp.size1]

\* the nonzero of sp that holds element el, -1 when el is a structural zero
getNZ(sp, el) ==
  LET rc == <<el % sp.size1, el \div sp.size1>>
  IN  IF \E k \in 1..Nnz(sp) : sp.nz[k] = rc
        THEN (CHOOSE k \in 1..Nnz(sp) : sp.nz[k] = rc) - 1
        ELSE -1

\* CRSSparsity::getNZInplace: every element replaced by its nonzero or -1
getNZInplace(sp, temp) == [k \in 1..Len(temp) |-> getNZ(sp, temp[k])]

\* the k, in increasing order from k on, with temp[k] != -1
RECURSIVE Surviving(_, _)
Surviving(temp, k) ==
  IF k > Len(temp) THEN <<>>
  ELSE (IF temp[k] # -1 THEN <<k>> ELSE <<>>) \o Surviving(temp, k + 1)

\* the loops "Add to sparsity pattern": for every surviving k, temp[k] is
\* pushed to nz and the coordinates of nonzero at[k] of sp to col and row
Triplets(temp, sp, at) ==
  LET S == Surviving(temp, 1)
  IN  [nz  |-> [j \in 1..Len(S) |-> temp[S[j]]],
       col |-> [j \in 1..Len(S) |-> col(sp)[at[S[j]] + 1]],
       row |-> [j \in 1..Len(S) |-> getRow(sp)[at[S[j]] + 1]]]

NoTriplets == [nz |-> <<>>, col |-> <<>>, row |-> <<>>]

\* coordinates in storage order: by row, then by column
RECURSIVE InStorageOrder(_)
InStorageOrder(S) ==
  IF S = {} THEN <<>>
  ELSE LET first == CHOOSE x \in S : \A y \in S :
                      x[1] < y[1] \/ (x[1] = y[1] /\ x[2] <= y[2])
       IN  <<first>> \o InStorageOrder(S \ {first})

\* sp_triplet(n, m, row, col): the pattern with a nonzero at every
\* (row[j], col[j]), repeated coordinates merged, in storage order
sp_triplet(n, m, row, cols) ==
  Sp(n, m, InStorageOrder({<<row[j], cols[j]>> : j \in 1..Len(row)}))

---------------------------------------------------------------------------
(* Symbolic re-derivation, evaluateMX: the expressions it builds. In a     *)
(* symbolic sweep the driver's buffers hold MX expressions: present is the *)
(* MX* being non-null, data the MX it points to.                           *)

MXExpr(kind, name, dir, sp, dep, inz, onz) ==
  [kind |-> kind, name |-> name, dir |-> dir, sp |-> sp,
   dep |-> dep, inz |-> inz, onz |-> onz]

\* MX(): the empty expression
MXEmpty == MXExpr("MX()", "", 0, Sp(0, 0, <<>>), <<>>, <<>>, <<>>)

\* a symbolic leaf of the surrounding graph
MXSym(name, dir, sp) == MXExpr("sym", name, dir, sp, <<>>, <<>>, <<>>)

\* MX::zeros(sp)
MXZeros(sp) == MXExpr("zeros", "", 0, sp, <<>>, <<>>, <<>>)

\* MX::create(new GetNonzeros(sp)) followed by assign(d, inz)
MXGetNonzeros(sp, d, inz) ==
  MXExpr("GetNonzeros", "", 0, sp, <<d>>, inz, <<>>)

\* MX::create(new Mapping(sp))
MXMapping(sp) == MXExpr("Mapping", "", 0, sp, <<>>, <<>>, <<>>)

\* Mapping::assign(d, inz, onz, true) on a new Mapping: nonzero inz[k] of d
\* is added to nonzero onz[k]; nothing is attached for an empty inz
MappingAssign(s, d, inz, onz) ==
  IF Len(inz) = 0 THEN s
  ELSE [s EXCEPT !.dep = <<d>>, !.inz = inz, !.onz = onz]

\* lhs += rhs
MXAdd(lhs, rhs) == MXExpr("add", "", 0, lhs.sp, <<lhs, rhs>>, <<>>, <<>>)

\* isp = dep().sparsity()
isp == dep_[1].sp

\* assigns2_order as evaluateMX computes it for this node
Order == assigns2_order(assigns2_, Nnz(isp))

\* assigns2_[assigns2_order[k]].second, the output nonzero of the k-th known element
OutAt == [k \in 1..Len(assigns2_) |-> assigns2_[Order[k] + 1][2]]

\* assigns2_[k].first, the input nonzero of the k-th wanted element
InAt == [k \in 1..Len(assigns2_) |-> assigns2_[k][1]]

\* the blocks of lines 188-298 run
BothPresent == input.present /\ output.present

\* r_inz, r_col, r_row
r_triplets(output_given) ==
  IF BothPresent /\ ~output_given
    THEN Triplets(getNZInplace(input.data.sp, el_known(isp, assigns2_, Order)),
                  sparsity, OutAt)
    ELSE NoTriplets

\* f_inz[d], f_col[d], f_row[d]
f_triplets(d) ==
  IF BothPresent
    THEN Triplets(getNZInplace(fwdSeed[d].data.sp,
                               el_known(isp, assigns2_, Order)),
                  sparsity, OutAt)
    ELSE NoTriplets

\* a_onz[d], a_col[d], a_row[d]
a_triplets(d) ==
  IF BothPresent
    THEN Triplets(getNZInplace(adjSeed[d].data.sp,
                               el_wanted(sparsity, assigns2_)),
                  isp, InAt)
    ELSE NoTriplets

\* the result built from triplets without the test of an empty inz
RederivedAlwaysNode(t, d) ==
  LET r_sp == sp_triplet(sparsity.size1, sparsity.size2, t.row, t.col)
  IN  IF ~input.present THEN MXZeros(r_sp)
      ELSE MXGetNonzeros(r_sp, d.data, t.nz)

\* what *output[0] or *fwdSens[d][0] is set to, from the triplets t of the
\* expression d: zeros when the input is absent or nothing survived, a new
\* GetNonzeros of d otherwise
Rederived(t, d) ==
  LET r_sp == sp_triplet(sparsity.size1, sparsity.size2, t.row, t.col)
  IN  IF ~input.present THEN MXZeros(r_sp)
      ELSE IF Len(t.nz) > 0 THEN MXGetNonzeros(r_sp, d.data, t.nz)
      ELSE MXZeros(r_sp)

\* the Mapping s of adjoint direction d; the mapping sp_triplet hands back
\* in a_inz is not used afterwards
Scattered(d) ==
  LET a    == a_triplets(d)
      a_sp == sp_triplet(input.data.sp.size1, input.data.sp.size2,
                         a.row, a.col)
  IN  IF output.present
        THEN MappingAssign(MXMapping(a_sp), adjSeed[d].data, a.nz, a.nz)
        ELSE MXMapping(a_sp)

\* some assigns2_[k].first is no nonzero of the dependency: inz_count, irow
\* and icol are then indexed beyond their ends
PairsOutOfRange ==
  \E k \in 1..Len(assigns2_) :
    ~(0 <= assigns2_[k][1] /\ assigns2_[k][1] < Nnz(isp))

\* a null MX* that evaluateMX dereferences without a test
NullDereferenced ==
  \/ BothPresent /\ \E d \in 1..Len(fwdSens) : ~fwdSeed[d].present
  \/ BothPresent /\ \E d \in 1..Len(adjSeed) : ~adjSeed[d].present
  \/ output.present /\ \E d \in 1..Len(fwdSens) : ~fwdSens[d].present
  \/ input.present /\ \E d \in 1..Len(adjSeed) : ~adjSens[d].present

\* what undefined behaviour leaves in an expression
MXJunk == MXExpr("junk", "", 0, Sp(0, 0, <<>>), <<>>, <<>>, <<>>)

\* evaluateMX running into undefined behaviour: it either stops before it
\* has written anything or goes on with whatever it has read
EvaluateMXUndefined ==
  /\ ret' = "undefined"
  /\ oob' = TRUE
  /\ \E goes_on \in BOOLEAN :
       IF goes_on
         THEN /\ output' = WithData(output, MXJunk)
              /\ fwdSens' = [d \in 1..Len(fwdSens) |->
                               WithData(fwdSens[d], MXJunk)]
              /\ adjSens' = [d \in 1..Len(adjSens) |->
                               WithData(adjSens[d], MXJunk)]
              /\ adjSeed' = [d \in 1..Len(adjSeed) |->
                               WithData(adjSeed[d], MXJunk)]
         ELSE UNCHANGED <<output, fwdSens, adjSens, adjSeed>>

\* the adjoint loop of lines 350-377 clearing the seed only where the input
\* is present
ClearedIfInput(d) ==
  IF adjSeed[d].present /\ input.present THEN Buffer(MXEmpty) ELSE adjSeed[d]

\* lines 373-376: *adjSeed[d][0] = MX() when adjSeed[d][0] is not null
Cleared(d) ==
  IF adjSeed[d].present THEN Buffer(MXEmpty) ELSE adjSeed[d]

\* lines 352-371: *adjSens[d][0] += s when the input is present
Accumulated(d) ==
  IF input.present
    THEN Buffer(MXAdd(adjSens[d].data, Scattered(d)))
    ELSE adjSens[d]

\* GetNonzeros::evaluateMX, called once on the expressions of a sweep
EvaluateMX(output_given) ==
  /\ sweep = "symbolic"
  /\ op # "evaluateMX"
  /\ op' = "evaluateMX"
  /\ arg' = [output_given |-> output_given]
  /\ IF ndep # 1
       THEN /\ ret' = "assert(input.size()==1)"
            /\ UNCHANGED <<output, fwdSens, adjSens, adjSeed, oob>>
       ELSE IF (BothPresent /\ PairsOutOfRange) \/ NullDereferenced
         THEN EvaluateMXUndefined
         ELSE /\ ret' = "ok"
              /\ output' =
                   IF ~output_given /\ output.present
                     THEN Buffer(Rederived(r_triplets(output_given), input))
                     ELSE output
              /\ fwdSens' =
                   [d \in 1..Len(fwdSens) |->
                      IF output.present
                        THEN Buffer(Rederived(f_triplets(d), fwdSeed[d]))
                        ELSE fwdSens[d]]
              /\ adjSens' = [d \in 1..Len(adjSeed) |-> Accumulated(d)]
              /\ adjSeed' = [d \in 1..Len(adjSeed) |-> Cleared(d)]
              /\ UNCHANGED oob
  /\ stream' = <<>>
  /\ UNCHANGED <<input, fwdSeed, sweep, gen, mem>>
  /\ UNCHANGED nodeVars
  /\ UNCHANGED ex

---------------------------------------------------------------------------
(* Code generation: generateOperation. The stream receives tokens; the     *)
(* integers written with operator<< are kept as integers.                  *)

\* CodeGenerator::getConstant(v, true): the handle of v in the pool, the
\* next free one when v is not in it yet
getConstant(pool, v) ==
  IF \E i \in 1..Len(pool) : pool[i] = v
    THEN (CHOOSE i \in 1..Len(pool) : pool[i] = v) - 1
    ELSE Len(pool)

\* the pool after getConstant(v, true)
AddConstant(pool, v) ==
  IF \E i \in 1..Len(pool) : pool[i] = v THEN pool ELSE Append(pool, v)

\* tmp1[i] = assigns2_[i].first
tmp1 == [i \in 1..Len(assigns2_) |-> assigns2_[i][1]]

\* tmp2[i] = assigns2_[i].second
tmp2 == [i \in 1..Len(assigns2_) |-> assigns2_[i][2]]

\* the two statements with a first loop that clears nothing
EmittedNoClear(pool) ==
  LET ind1 == getConstant(pool, tmp1)
      ind2 == getConstant(AddConstant(pool, tmp1), tmp2)
  IN  <<"  for(i=0; i<", 0, "; ++i) ", "res", "[i]=0;", "\n",
        "  for(i=0; i<", Len(assigns2_), "; ++i) ", "res", "[s", ind2,
        "[i]] += ", "arg", "[s", ind1, "[i]];", "\n">>

\* the two statements generateOperation writes for res.front() == "res" and
\* arg.front() == "arg"
Emitted(pool) ==
  LET ind1 == getConstant(pool, tmp1)
      ind2 == getConstant(AddConstant(pool, tmp1), tmp2)
  IN  <<"  for(i=0; i<", Nnz(sparsity), "; ++i) ", "res", "[i]=0;", "\n",
        "  for(i=0; i<", Len(assigns2_), "; ++i) ", "res", "[s", ind2,
        "[i]] += ", "arg", "[s", ind1, "[i]];", "\n">>

\* GetNonzeros::generateOperation (const: the node is only read)
GenerateOperation ==
  /\ sweep = "emit"
  /\ op' = "generateOperation"
  /\ arg' = NoArg
  /\ ret' = "ok"
  /\ stream' = Emitted(gen)
  /\ gen' = AddConstant(AddConstant(gen, tmp1), tmp2)
  /\ UNCHANGED <<input, output, fwdSeed, fwdSens, adjSeed, adjSens, oob,
                 sweep, mem>>
  /\ UNCHANGED nodeVars
  /\ UNCHANGED ex

---------------------------------------------------------------------------
(* The symbolic sweeps and the code generation a finalized node is used in *)

\* the output sparsities, the dependencies and the table entries
MXPatterns == {Dense11, Dense12, Diag22}
Tril22 == Sp(2, 2, <<  <<0, 0>>, <<1, 0>>, <<1, 1>>  >>)
MXDeps == {MXOf(Dense12), MXOf(Tril22)}
MXIndices == Indices({d.sp : d \in MXDeps})

\* the sparsities an expression of structure p is supplied with: all of p,
\* p without its first nonzero, none of p
Thin(p) == {p, Sp(p.size1, p.size2, Tail(p.nz)), Sp(p.size1, p.size2, <<>>)}

\* the pools a code generator holds before the node is generated
Pools == {<<>>, <<  <<0, 1>>  >>}

\* the primal expression and 0 .. MaxDir forward directions
SymForwardSweep(i_sp, o_sp) ==
  /\ input \in {Absent} \cup {Buffer(MXSym("x", 0, p)) : p \in Thin(i_sp)}
  /\ output \in {Absent, Buffer(MXEmpty)}
  /\ \E n \in 0..MaxDir :
       /\ fwdSeed \in [1..n -> {Buffer(MXSym("fwdSeed", d, p)) :
                                  d \in 1..n, p \in Thin(i_sp)}]
       /\ \A d \in 1..n : fwdSeed[d].data.dir = d
       /\ fwdSens = [d \in 1..n |-> Buffer(MXEmpty)]
  /\ NoDirections(adjSeed, adjSens)

\* 1 .. MaxDir adjoint directions, a seed being null or an expression
SymAdjointSweep(i_sp, o_sp) ==
  /\ input \in {Absent, Buffer(MXSym("x", 0, i_sp)),
                Buffer(MXSym("x", 0, Sp(i_sp.size1, i_sp.size2, Tail(i_sp.nz))))}
  /\ output \in {Absent, Buffer(MXEmpty)}
  /\ NoDirections(fwdSeed, fwdSens)
  /\ \E n \in 1..MaxDir :
       /\ adjSeed \in [1..n -> {Absent} \cup
                                 {Buffer(MXSym("adjSeed", d, p)) :
                                    d \in 1..n, p \in Thin(o_sp)}]
       /\ \A d \in 1..n : adjSeed[d].present => adjSeed[d].data.dir = d
       /\ adjSens = [d \in 1..n |-> Buffer(MXSym("adjSens", d, i_sp))]

\* what a finalized node is handed
MXSweeps(i_sp, o_sp) ==
  \/ sweep = "symbolic" /\ gen = <<>> /\ SymForwardSweep(i_sp, o_sp)
  \/ sweep = "symbolic" /\ gen = <<>> /\ SymAdjointSweep(i_sp, o_sp)
  \/ /\ sweep = "emit"
     /\ gen \in Pools
     /\ input = Absent
     /\ output = Absent
     /\ NoDirections(fwdSeed, fwdSens)
     /\ NoDirections(adjSeed, adjSens)

\* the node is either fresh from the constructor (no dependency, so
\* evaluateMX is handed an empty input vector) or assigned and initialized
InitMX ==
  /\ \E sp \in MXPatterns :
       \/ /\ Constructor(sp)
          /\ op = "GetNonzeros"
          /\ sweep = "symbolic"
          /\ gen = <<>>
          /\ input = Absent
          /\ output \in {Absent, Buffer(MXEmpty)}
          /\ NoDirections(fwdSeed, fwdSens)
          /\ NoDirections(adjSeed, adjSens)
       \/ \E d \in MXDeps, inz \in [1..Nnz(sp) -> MXIndices] :
            /\ Constructed(sp, d, inz)
            /\ op = "init"
            /\ MXSweeps(d.sp, sp)
  /\ oob = FALSE
  /\ mem = NoMemory
  /\ ex = "this"
  /\ stream = <<>>
  /\ arg = NoArg
  /\ ret = "ok"

NextMX ==
  \/ \E output_given \in BOOLEAN : EvaluateMX(output_given)
  \/ GenerateOperation

SpecMX == InitMX /\ [][NextMX]_vars

---------------------------------------------------------------------------
(* The callbacks CvodesSimulator hands to CVODES. A call made in a try     *)
(* block either returns an int or throws an object of some type; a         *)
(* callback either returns an int to the solver or lets the object escape. *)

Returned(v) == [kind |-> "return", type |-> "int", value |-> v]
Throws(type, v) == [kind |-> "throw", type |-> type, value |-> v]
Escaped(e) == [kind |-> "escape", type |-> e.type, value |-> e.value]

\* casadi_error(msg), casadi_assert_dev(false): a CasadiException
casadi_error == Throws("exception", 0)

\* what calc_function, Linsol::solve and Linsol::nfact can do: return zero
\* or non-zero, throw an int flag (a recoverable error, as the handlers of
\* rhs, psolve, psetup, lsetup and lsolve declare it), throw a
\* std::exception
CalleeOutcomes ==
  {Returned(0), Returned(1), Throws("int", 1), Throws("int", 2),
   Throws("exception", 0)}

\* the values CVODES passes as gamma
Gammas == {1, 2}

\* first; rest: rest is not reached when first throws
Then(first, rest) == IF first.kind = "throw" THEN first ELSE rest

\* if (call) casadi_error(...)
ErrorIf(call) ==
  IF call.kind = "return" /\ call.value # 0 THEN casadi_error ELSE call

\* try { body } catch(flagType flag) { return flag; }
\*              catch(exception& e) { uerr() << ...; return -1; }
\* a handler matches an object of its own type only
Catch(flagType, body) ==
  IF body.kind # "throw" THEN body
  ELSE IF body.type = flagType THEN Returned(body.value)
  ELSE IF body.type = "exception" THEN Returned(-1)
  ELSE Escaped(body)

\* what the catch(exception&) handler of callback name writes to uerr()
Uerr(name, body) ==
  IF body.kind = "throw" /\ body.type = "exception"
    THEN <<name, " failed: ", "what()">>
    ELSE <<>>

\* the try blocks
rhs_body(user_data, calc) ==
  Then(IF user_data THEN Returned(0) ELSE casadi_error,
       Then(calc, Returned(0)))

jtimes_body(calc) == Then(calc, Returned(0))

psolve_body(solve1, calc, solve2) ==
  Then(ErrorIf(solve1),
       IF mem.ns > 0
         THEN Then(IF mem.second_order_correction THEN calc ELSE Returned(0),
                   Then(ErrorIf(solve2), Returned(0)))
         ELSE Returned(0))

psetup_body(calc, nfact) ==
  Then(ErrorIf(calc), Then(ErrorIf(nfact), Returned(0)))

\* what the call of psetup / psolve inside lsetup / lsolve does, and the
\* try block around it: if (psetup(...)) return 1; return 0;
Delegated(r) ==
  IF r.kind = "escape" THEN Throws(r.type, r.value)
  ELSE IF r.value # 0 THEN Returned(1)
  ELSE Returned(0)

\* a callback has been called: the outcomes its callees had, the outcome of
\* its try block, what it handed to the solver and what it wrote to uerr()
Callback(name, calls, body, result) ==
  /\ op' = name
  /\ arg' = [calls |-> calls, body |-> body]
  /\ ret' = result
  /\ stream' = Uerr(name, body)
  /\ UNCHANGED <<input, output, fwdSeed, fwdSens, adjSeed, adjSens, oob,
                 sweep, gen>>
  /\ UNCHANGED nodeVars
  /\ UNCHANGED ex

\* CvodesSimulator::rhs
Rhs ==
  \E user_data \in BOOLEAN, calc \in CalleeOutcomes :
    /\ Callback("rhs", <<Returned(IF user_data THEN 1 ELSE 0), calc>>,
                rhs_body(user_data, calc),
                Catch("int", rhs_body(user_data, calc)))
    /\ UNCHANGED mem

\* CvodesSimulator::jtimes
Jtimes ==
  \E calc \in CalleeOutcomes :
    /\ Callback("jtimes", <<calc>>, jtimes_body(calc),
                Catch("casadi_int", jtimes_body(calc)))
    /\ UNCHANGED mem

\* CvodesSimulator::psolve
Psolve ==
  \E solve1, calc, solve2 \in CalleeOutcomes :
    /\ Callback("psolve", <<solve1, calc, solve2>>,
                psolve_body(solve1, calc, solve2),
                Catch("int", psolve_body(solve1, calc, solve2)))
    /\ UNCHANGED mem

\* CvodesSimulator::psetup: m->gamma = gamma comes before the calls
Psetup ==
  \E gamma \in Gammas, calc, nfact \in CalleeOutcomes :
    /\ Callback("psetup", <<calc, nfact>>, psetup_body(calc, nfact),
                Catch("int", psetup_body(calc, nfact)))
    /\ mem' = [mem EXCEPT !.gamma = gamma]

\* CvodesSimulator::lsetup, gamma being cv_mem->cv_gamma
Lsetup ==
  \E gamma \in Gammas, calc, nfact \in CalleeOutcomes :
    LET r == Catch("int", psetup_body(calc, nfact))
    IN  /\ Callback("lsetup", <<r>>, Delegated(r), Catch("int", Delegated(r)))
        /\ mem' = [mem EXCEPT !.gamma = gamma]

\* CvodesSimulator::lsolve
Lsolve ==
  \E solve1, calc, solve2 \in CalleeOutcomes :
    LET r == Catch("int", psolve_body(solve1, calc, solve2))
    IN  /\ Callback("lsolve", <<r>>, Delegated(r), Catch("int", Delegated(r)))
        /\ UNCHANGED mem

\* a simulator with or without sensitivity equations and second order
\* correction, before CVODES has called anything
InitCvodes ==
  /\ Constructor(Empty12)
  /\ input = Absent
  /\ output = Absent
  /\ NoDirections(fwdSeed, fwdSens)
  /\ NoDirections(adjSeed, adjSens)
  /\ oob = FALSE
  /\ sweep = "none"
  /\ gen = <<>>
  /\ \E ns \in {0, 1}, soc \in BOOLEAN :
       mem = [gamma |-> 0, ns |-> ns, second_order_correction |-> soc]
  /\ ex = "this"
  /\ stream = <<>>
  /\ op = "init_mem"
  /\ arg = [calls |-> <<>>, body |-> Returned(0)]
  /\ ret = Returned(0)

NextCvodes == Rhs \/ Jtimes \/ Psolve \/ Psetup \/ Lsetup \/ Lsolve

SpecCvodes == InitCvodes /\ [][NextCvodes]_vars

---------------------------------------------------------------------------
(* Properties of construction, checked under Spec *)

\* assigns_[k] == k for all k, stated on the table as a whole
InOrder(a) == \A k \in 1..Len(a) : a[k] = k - 1

\* C7: simplifyMe replaces the expression by dep(0) exactly when the output
\* sparsity equals the dependency's sparsity and assigns_[k] == k for all k
\* (a permutation, a subset or another shape is not the identity); otherwise
\* the expression is left as it was.
SimplifyIffIdentity ==
  [][op' = "simplifyMe" =>
       IF ndep >= 1 /\ sparsity = dep_[1].sp /\ InOrder(assigns_)
         THEN ex' = "dep(0)"
         ELSE ex' = ex]_vars

\* an identity node was simplified to its dependency
SimplifiedIdentity ==
  /\ op = "simplifyMe"
  /\ ex = "dep(0)"
  /\ sparsity = Dense21
  /\ dep_ = <<MXOf(Dense21)>>
  /\ assigns_ = <<0, 1>>

\* C8: assign with a non-empty inz throws at that call when d is null or
\* inz.size() differs from the output's nonzero count, and then neither the
\* dependencies nor assigns_ have changed.
AssignFailsAtomically ==
  [][/\ op' = "assign"
     /\ arg'.len > 0
     /\ (arg'.dnull \/ arg'.len # Nnz(sparsity))
     => /\ ret' # "ok"
        /\ (arg'.dnull => ret' = "assert(!d.isNull())")
        /\ dep_' = dep_
        /\ assigns_' = assigns_]_vars

\* a node with a mapping has rejected a table of the wrong length
RejectedWrongLength ==
  /\ op = "assign"
  /\ ret = "assert(inz.size()==size())"
  /\ arg.len = 1
  /\ ndep = 1
  /\ assigns_ = <<1, 0>>

\* C9: assign with an empty inz returns without error whatever d and the
\* output sparsity are and changes nothing of the node; a node that has been
\* given empty tables only has no dependency, an all-zero assigns_, and is
\* printed as sparse(size1,size2).
EmptyAssignIsNoOp ==
  /\ [][op' = "assign" /\ arg'.len = 0 =>
          /\ ret' = "ok"
          /\ dep_' = dep_
          /\ assigns_' = assigns_
          /\ sparsity' = sparsity]_vars
  /\ [][op' = "printPart" /\ ndep = 0 =>
          /\ assigns_ = Zeros(Nnz(sparsity))
          /\ stream' = <<"sparse(", ToString(sparsity.size1), ",",
                         ToString(sparsity.size2), ")">>]_vars

\* a null dependency with an empty table was accepted
EmptyAssignOfNull ==
  /\ op = "assign"
  /\ arg = [dnull |-> TRUE, len |-> 0]
  /\ ret = "ok"
  /\ ndep = 0
  /\ Nnz(sparsity) = 2

\* C10: in every node that assign has accepted, every assigns_[k] is a
\* nonzero of the dependency: 0 <= assigns_[k] < dep(0).size().
AcceptedTableInRange ==
  op = "assign" /\ ret = "ok" /\ arg.len > 0 /\ ndep = 1 =>
    \A k \in 1..Len(assigns_) :
      0 <= assigns_[k] /\ assigns_[k] < Nnz(dep_[1].sp)

\* init has built the pairs of this node
Finalized == assigns2_ # <<>>

\* the pairs of a sequence, as a set
PairSet(pairs) == {pairs[k] : k \in 1..Len(pairs)}

\* C12: once init has built assigns2_, no later assign or init changes
\* assigns_, and assigns2_ stays equal, as a set, to the pairs
\* (assigns_[k], k) of the current assigns_.
FinalizedNodeImmutable ==
  [][Finalized =>
       /\ assigns_' = assigns_
       /\ PairSet(assigns2_') = PairSet(Pairs(assigns_'))]_vars

\* a second, different table was accepted after init, the pairs left behind
StalePairs ==
  /\ op = "assign"
  /\ ret = "ok"
  /\ assigns_ = <<1, 0>>
  /\ assigns2_ = <<<<0, 0>>, <<1, 1>>>>

---------------------------------------------------------------------------
(* Properties of numeric propagation, checked under SpecNum. The unprimed  *)
(* buffers are those handed to the call, the primed ones those it leaves.  *)

\* the output nonzeros k that read input nonzero i (0-based)
ReadersOf(i) == {k \in 1..Len(assigns_) : assigns_[k] = i}

\* the sum of data[k] over the k in S
RECURSIVE SumOver(_, _)
SumOver(S, data) ==
  IF S = {} THEN 0
  ELSE LET k == CHOOSE x \in S : TRUE
       IN  data[k] + SumOver(S \ {k}, data)

\* bit b of the taint word w
Bit(w, b) == (w \div 2 ^ b) % 2 = 1

\* the bits the taint words of a sweep can have set
BitsChecked == 0..7

\* the step on this pair of buffers runs
Runs(in, out) == in.present /\ out.present

\* C1: when input[0] and output[0] are both present, evaluateD leaves
\* output[k] = input[assigns_[k]] for every output nonzero k whose source is a
\* nonzero of the input (so a table with assigns_[k] == k over equal sizes
\* reproduces the input), and does not change the input.
PrimalIsGather ==
  [][op' = "evaluateD" /\ ret' = "ok" /\ Runs(input, output) =>
       /\ output'.present
       /\ Len(output'.data) = Nnz(sparsity)
       /\ \A k \in 1..Nnz(sparsity) :
            InBounds(assigns_[k], input.data) =>
              output'.data[k] = input.data[assigns_[k] + 1]
       /\ (InOrder(assigns_) /\ Len(assigns_) = Len(input.data) =>
             output'.data = input.data)
       /\ input' = input]_vars

\* input 10,20,30 gathered through assigns_ = [2,1] gives 30,20
PrimalGathered ==
  /\ op = "evaluateD"
  /\ ret = "ok"
  /\ assigns_ = <<2, 1>>
  /\ input = Buffer(<<10, 20, 30>>)
  /\ output = Buffer(<<30, 20>>)

\* C2: for every adjoint direction with both buffers present, evaluateD
\* leaves every input adjoint slot i at its previous value plus the sum of
\* the seed entries k with assigns_[k] == i (none: unchanged), and every seed
\* entry at zero; stated for tables whose entries all lie in the input.
AdjointAccumulatesThenClears ==
  [][op' = "evaluateD" /\ ret' = "ok" =>
       \A d \in 1..Len(adjSeed) :
         Runs(adjSeed[d], adjSens[d]) /\ ~AnyOob(adjSens[d].data) =>
           /\ adjSens'[d].present /\ adjSeed'[d].present
           /\ Len(adjSens'[d].data) = Len(adjSens[d].data)
           /\ \A i \in 1..Len(adjSens[d].data) :
                adjSens'[d].data[i] =
                  adjSens[d].data[i] + SumOver(ReadersOf(i - 1), adjSeed[d].data)
           /\ adjSeed'[d].data = Zeros(Len(adjSeed[d].data))]_vars

\* three outputs reading input 0, seed 1,2,4: the input adjoint 100,200 has
\* become 107,200 and the seed 0,0,0
FanOutAccumulated ==
  /\ op = "evaluateD"
  /\ arg.call = 1
  /\ assigns_ = <<0, 0, 0>>
  /\ Len(adjSeed) = 1
  /\ adjSens[1] = Buffer(<<107, 200>>)
  /\ adjSeed[1] = Buffer(<<0, 0, 0>>)

\* C3: a second evaluateD call right after the first, on the same buffers,
\* leaves every input adjoint as the first call left it (the seed it finds
\* is zero); stated for tables whose entries all lie in the input.
AdjointTwiceIsOnce ==
  [][op = "evaluateD" /\ ret = "ok" /\ op' = "evaluateD" =>
       \A d \in 1..Len(adjSeed) :
         Runs(adjSeed[d], adjSens[d]) /\ ~AnyOob(adjSens[d].data) =>
           /\ adjSeed[d].data = Zeros(Len(adjSeed[d].data))
           /\ adjSens'[d] = adjSens[d]]_vars

\* the second call has returned with the input adjoint of the first,
\* 100+4, 200, 300+2+1 for assigns_ = [2,2,0] and seed 1,2,4
SecondCallAddedNothing ==
  /\ op = "evaluateD"
  /\ arg.call = 2
  /\ assigns_ = <<2, 2, 0>>
  /\ Len(adjSeed) = 1
  /\ adjSens[1] = Buffer(<<104, 200, 303>>)
  /\ adjSeed[1] = Buffer(<<0, 0, 0>>)

\* C4: for every forward direction d with seed and sensitivity both present,
\* evaluateD leaves fwdSens[d][k] = fwdSeed[d][assigns_[k]] for every k whose
\* source is a nonzero of the seed: a function of direction d's seed alone,
\* whatever the other directions are; a direction with an absent buffer is
\* skipped, and no seed changes.
ForwardDirectionsIndependent ==
  [][op' = "evaluateD" /\ ret' = "ok" =>
       /\ Len(fwdSens') = Len(fwdSens)
       /\ fwdSeed' = fwdSeed
       /\ \A d \in 1..Len(fwdSens) :
            IF Runs(fwdSeed[d], fwdSens[d])
              THEN /\ fwdSens'[d].present
                   /\ Len(fwdSens'[d].data) = Nnz(sparsity)
                   /\ \A k \in 1..Nnz(sparsity) :
                        InBounds(assigns_[k], fwdSeed[d].data) =>
                          fwdSens'[d].data[k] = fwdSeed[d].data[assigns_[k] + 1]
              ELSE fwdSens'[d] = fwdSens[d]]_vars

\* two directions, the first without a sensitivity buffer: the second is
\* gathered from its own seed 201,202,203 through assigns_ = [2,0]
SecondDirectionAlone ==
  /\ op = "evaluateD"
  /\ assigns_ = <<2, 0>>
  /\ Len(fwdSens) = 2
  /\ fwdSeed[1].present
  /\ ~fwdSens[1].present
  /\ fwdSeed[2] = Buffer(<<201, 202, 203>>)
  /\ fwdSens[2] = Buffer(<<203, 201>>)

\* C5: a step of evaluateD (primal, adjoint direction) or of
\* propagateSparsity whose input-side or output-side buffer is absent leaves
\* both of its buffers as they were, the call returns without error, and a
\* call all of whose steps are skipped addresses nothing.
AbsentBufferSkips ==
  /\ [][op' = "evaluateD" /\ ndep = 1 =>
          /\ ret' = "ok"
          /\ (~Runs(input, output) => input' = input /\ output' = output)
          /\ \A d \in 1..Len(adjSeed) :
               ~Runs(adjSeed[d], adjSens[d]) =>
                 adjSeed'[d] = adjSeed[d] /\ adjSens'[d] = adjSens[d]
          /\ (/\ ~Runs(input, output)
              /\ \A d \in 1..Len(fwdSens) : ~Runs(fwdSeed[d], fwdSens[d])
              /\ \A d \in 1..Len(adjSeed) : ~Runs(adjSeed[d], adjSens[d])
              => oob' = oob)]_vars
  /\ [][op' = "propagateSparsity" /\ ndep = 1 /\ ~Runs(input, output) =>
          /\ ret' = "ok"
          /\ input' = input
          /\ output' = output
          /\ oob' = oob]_vars

\* evaluateD has returned from a sweep without input[0] and without
\* adjSens[0][0]: output[0] and the adjoint seed are as the driver left them
SkippedPrimalAndAdjoint ==
  /\ op = "evaluateD"
  /\ ret = "ok"
  /\ ~input.present
  /\ output = Buffer(Stale(Nnz(sparsity)))
  /\ Len(adjSeed) = 1
  /\ ~adjSens[1].present
  /\ adjSeed[1] = Buffer(AdjSeedData(1, Nnz(sparsity)))
  /\ Nnz(sparsity) = 3
  /\ fwdSens[1] = Buffer(Gather(SeedData(1, Nnz(dep_[1].sp)), 0))
  /\ ~AnyOob(fwdSeed[1].data)

\* C6: with both buffers present, propagateSparsity(fwd = true) leaves
\* outTaint[k] = inTaint[assigns_[k]] and inTaint unchanged;
\* propagateSparsity(fwd = false) leaves every input word i as its previous
\* value or-ed with outTaint[k] for all k with assigns_[k] == i (none:
\* unchanged, never cleared) and every outTaint[k] at 0; the reverse variant
\* is stated for tables whose entries all lie in the input.
TaintPropagation ==
  [][op' = "propagateSparsity" /\ ret' = "ok" /\ Runs(input, output) =>
       IF arg'.fwd
         THEN /\ output'.present
              /\ Len(output'.data) = Nnz(sparsity)
              /\ \A k \in 1..Nnz(sparsity) :
                   InBounds(assigns_[k], input.data) =>
                     output'.data[k] = input.data[assigns_[k] + 1]
              /\ input' = input
         ELSE ~AnyOob(input.data) =>
              /\ input'.present /\ output'.present
              /\ Len(input'.data) = Len(input.data)
              /\ \A i \in 1..Len(input.data) :
                   /\ input'.data[i] < 2 ^ Cardinality(BitsChecked)
                   /\ \A b \in BitsChecked :
                        Bit(input'.data[i], b) <=>
                          \/ Bit(input.data[i], b)
                          \/ \E k \in ReadersOf(i - 1) : Bit(output.data[k], b)
              /\ output'.data = Zeros(Len(output.data))]_vars

\* reverse taint through assigns_ = [0,0]: the input words 1,2 have become
\* 1|8|16, 2 and the output words 0,0
TaintReversed ==
  /\ op = "propagateSparsity"
  /\ arg = [fwd |-> FALSE, call |-> 1]
  /\ assigns_ = <<0, 0>>
  /\ input = Buffer(<<25, 2>>)
  /\ output = Buffer(<<0, 0>>)

---------------------------------------------------------------------------
(* Properties of symbolic re-derivation and code generation, checked under *)
(* SpecMX                                                                  *)

\* the pairs in the order evaluateMX visits them
GroupIndex == [j \in 1..Len(assigns2_) |-> assigns2_[Order[j] + 1]]

\* C11: the pairs, taken in the order that the counting pass, the prefix sum
\* and the placement pass of evaluateMX produce, are a permutation of the
\* pairs (assigns_[k], k), ascending by input nonzero and, among pairs of
\* one input nonzero, ascending by output nonzero (the sort is stable).
GroupIndexSorted ==
  op = "evaluateMX" /\ ret = "ok" /\ BothPresent =>
    /\ Len(GroupIndex) = Len(assigns_)
    /\ PairSet(GroupIndex) = {<<assigns_[k], k - 1>> : k \in 1..Len(assigns_)}
    /\ \A i, j \in 1..Len(GroupIndex) :
         i < j => \/ GroupIndex[i][1] < GroupIndex[j][1]
                  \/ /\ GroupIndex[i][1] = GroupIndex[j][1]
                     /\ GroupIndex[i][2] < GroupIndex[j][2]

\* a table that is not ascending was regrouped by input nonzero
RegroupedDescendingTable ==
  /\ op = "evaluateMX"
  /\ ret = "ok"
  /\ BothPresent
  /\ assigns_ = <<2, 0>>
  /\ GroupIndex = <<  <<0, 1>>, <<2, 0>>  >>

\* the value a leaf holds at its nonzero k (1-based): distinct for distinct
\* coordinates and directions
LeafValue(e, k) == 100 * e.dir + 10 * e.sp.nz[k][1] + e.sp.nz[k][2] + 1

\* the numeric value of expression e at coordinate rc: a leaf's value, a
\* GetNonzeros' gather res[k] = dep[inz[k]], a Mapping's scatter
\* res[onz[j]] += dep[inz[j]], a sum; 0 where e has no nonzero
RECURSIVE ValueAt(_, _)
ValueAt(e, rc) ==
  LET at  == {k \in 1..Nnz(e.sp) : e.sp.nz[k] = rc}
      nzv(d, i) == ValueAt(d, d.sp.nz[i + 1])
  IN  CASE e.kind = "sym" ->
             SumOver(at, [k \in 1..Nnz(e.sp) |-> LeafValue(e, k)])
        [] e.kind = "GetNonzeros" ->
             SumOver(at, [k \in 1..Nnz(e.sp) |-> nzv(e.dep[1], e.inz[k])])
        [] e.kind = "Mapping" ->
             SumOver({j \in 1..Len(e.onz) : (e.onz[j] + 1) \in at},
                     [j \in 1..Len(e.onz) |-> nzv(e.dep[1], e.inz[j])])
        [] e.kind = "add" -> ValueAt(e.dep[1], rc) + ValueAt(e.dep[2], rc)
        [] OTHER -> 0

\* C13: for every node, non-ascending tables included, and every forward
\* seed with all the dependency's nonzeros, the expression evaluateMX sets
\* *fwdSens[d][0] to has at output nonzero k the value the seed has at its
\* nonzero assigns_[k].
ForwardRederivedIsGather ==
  op = "evaluateMX" /\ ret = "ok" /\ BothPresent =>
    \A d \in 1..Len(fwdSeed) :
      fwdSeed[d].data.sp = isp =>
        \A k \in 1..Nnz(sparsity) :
          ValueAt(fwdSens[d].data, sparsity.nz[k])
            = LeafValue(fwdSeed[d].data, assigns_[k] + 1)

\* a node reading nonzeros 2 and 0 of a lower triangular dependency into
\* its diagonal was derived for a full seed: the new node reads 0 and 2
DerivedPermutation ==
  /\ op = "evaluateMX"
  /\ ret = "ok"
  /\ BothPresent
  /\ sparsity = Diag22
  /\ assigns_ = <<2, 0>>
  /\ Len(fwdSeed) = 1
  /\ fwdSeed[1].data.sp = Tril22
  /\ fwdSens[1].data.kind = "GetNonzeros"
  /\ fwdSens[1].data.sp = Diag22
  /\ fwdSens[1].data.inz = <<0, 2>>

\* none of the elements the node reads is a nonzero of the pattern s
NoneSurvives(s) ==
  \A k \in 1..Len(assigns_) :
    \A n \in 1..Nnz(s) : s.nz[n] # isp.nz[assigns_[k] + 1]

\* the structural zero of the node's output shape
ZeroOfOutputShape == MXZeros(Sp(sparsity.size1, sparsity.size2, <<>>))

\* C14: when the input is absent, or no element the node reads is a nonzero
\* of the expression supplied, evaluateMX ends without error and sets the
\* primal output (unless it was given) and the forward sensitivity of the
\* direction to zeros of the output shape without nonzeros, not to a new
\* node.
EmptyResultIsStructuralZero ==
  op = "evaluateMX" /\ ret # "undefined" /\ ndep = 1 /\ output.present =>
    /\ ret = "ok"
    /\ ~arg.output_given /\ (~input.present \/ NoneSurvives(input.data.sp))
         => output.data = ZeroOfOutputShape
    /\ \A d \in 1..Len(fwdSens) :
         ~input.present \/ NoneSurvives(fwdSeed[d].data.sp)
           => fwdSens[d].data = ZeroOfOutputShape

\* of two directions the first got a node, the second, its seed without
\* nonzeros, the structural zero
EmptySeedGaveZero ==
  /\ op = "evaluateMX"
  /\ ret = "ok"
  /\ BothPresent
  /\ Len(fwdSeed) = 2
  /\ Nnz(fwdSeed[2].data.sp) = 0
  /\ fwdSens[1].data.kind = "GetNonzeros"
  /\ fwdSens[2].data = MXZeros(Sp(2, 2, <<>>))

\* C15: when evaluateMX returns, every adjoint seed that was handed in
\* (non-null) is the empty expression, whether or not input and output were
\* present, and every adjoint sensitivity is its previous value plus a new
\* term when the input is present and untouched otherwise.
SeedsClearedSensAccumulated ==
  [][op' = "evaluateMX" /\ ret' = "ok" =>
       \A d \in 1..Len(adjSeed) :
         /\ adjSeed[d].present => adjSeed'[d] = Buffer(MXEmpty)
         /\ ~adjSeed[d].present => adjSeed'[d] = adjSeed[d]
         /\ input.present =>
              /\ adjSens'[d].data.kind = "add"
              /\ adjSens'[d].data.dep[1] = adjSens[d].data
              /\ adjSens'[d].data.dep[2].kind = "Mapping"
         /\ ~input.present => adjSens'[d] = adjSens[d]]_vars

\* without an input a seed was cleared and its sensitivity left alone
ClearedWithoutInput ==
  /\ op = "evaluateMX"
  /\ ret = "ok"
  /\ ~input.present
  /\ output.present
  /\ Len(adjSeed) = 2
  /\ adjSeed[1] = Buffer(MXEmpty)
  /\ ~adjSeed[2].present
  /\ adjSens[1] = Buffer(MXSym("adjSens", 1, isp))

\* C16: for an adjoint seed with all the output's nonzeros, the term that
\* evaluateMX adds to *adjSens[d][0] has at every input nonzero i the sum
\* of the seed's values at the output nonzeros k with assigns_[k] == i
\* (repeated targets summed), as evaluateD's adjoint loop adds it.
AdjointRederivedIsScatter ==
  [][op' = "evaluateMX" /\ ret' = "ok" /\ BothPresent =>
       \A d \in 1..Len(adjSeed) :
         adjSeed[d].data.sp = sparsity =>
           \A i \in 1..Nnz(isp) :
             ValueAt(adjSens'[d].data.dep[2], isp.nz[i])
               = SumOver(ReadersOf(i - 1),
                         [k \in 1..Nnz(sparsity) |->
                            LeafValue(adjSeed[d].data, k)])]_vars

\* the same node derived for a full adjoint seed: seed nonzero 0 is sent
\* to nonzero 0 of the term, which is the dependency's element (0, 0)
ScatteredPermutation ==
  /\ op = "evaluateMX"
  /\ ret = "ok"
  /\ BothPresent
  /\ sparsity = Diag22
  /\ dep_ = <<MXOf(Tril22)>>
  /\ assigns_ = <<2, 0>>
  /\ Len(adjSens) = 1
  /\ adjSens[1].data.kind = "add"
  /\ adjSens[1].data.dep[2].sp = Diag22
  /\ adjSens[1].data.dep[2].inz = <<0, 1>>
  /\ adjSens[1].data.dep[2].onz = <<0, 1>>

\* the second emitted loop from i on: res[s_out[i]] += arg[s_in[i]], i < n
RECURSIVE RunAccumulate(_, _, _, _, _, _)
RunAccumulate(res, argdata, s_out, s_in, n, i) ==
  IF i >= n THEN res
  ELSE RunAccumulate(
         [res EXCEPT ![s_out[i + 1] + 1] = @ + argdata[s_in[i + 1] + 1]],
         argdata, s_out, s_in, n, i + 1)

\* the buffer res after the emitted statements have run on argdata: the
\* bounds and the handles are read from the text, the index vectors from the
\* pool
RunEmitted(code, pool, argdata, res) ==
  RunAccumulate([k \in 1..Len(res) |-> IF k <= code[2] THEN 0 ELSE res[k]],
                argdata, pool[code[12] + 1], pool[code[16] + 1], code[8], 0)

\* C17: for a finalized node with a table inside the dependency, running
\* the statements generateOperation has written (clear res, then one
\* res[out] += arg[in] per pair) leaves res[k] == arg[assigns_[k]] for every
\* output nonzero k, as the primal evaluation does; every output nonzero is
\* the target of exactly one accumulate; and generateOperation changes
\* nothing of the node.
EmittedCodeIsGather ==
  [][op' = "generateOperation" /\ Finalized /\ ~PairsOutOfRange =>
       /\ nodeVars' = nodeVars
       /\ RunEmitted(stream', gen', PrimalData(Nnz(isp)),
                     Stale(Nnz(sparsity)))
            = [k \in 1..Nnz(sparsity) |->
                 PrimalData(Nnz(isp))[assigns_[k] + 1]]
       /\ \A k \in 1..Nnz(sparsity) :
            Cardinality({i \in 1..stream'[8] :
                           gen'[stream'[12] + 1][i] = k - 1}) = 1]_vars

\* code was generated into a pool that held the output indices already
GeneratedIntoSharedPool ==
  /\ op = "generateOperation"
  /\ assigns_ = <<2, 0>>
  /\ gen = <<  <<0, 1>>, <<2, 0>>  >>
  /\ stream[12] = 0
  /\ stream[16] = 1

---------------------------------------------------------------------------
(* Properties of the CVODES callbacks, checked under SpecCvodes *)

CallbackNames == {"rhs", "jtimes", "psetup", "psolve", "lsetup", "lsolve"}

\* C18: every callback hands an int to the solver and lets nothing escape:
\* the value its try block returns (0 on success), the flag when an integer
\* was thrown, -1 for any other exception; lsetup and lsolve hand back
\* non-zero whenever the psetup / psolve they call returned non-zero.
CallbacksContainFailures ==
  op \in CallbackNames =>
    /\ ret.kind = "return"
    /\ arg.body.kind = "return" => ret.value = arg.body.value
    /\ arg.body.kind = "throw" /\ arg.body.type = "int"
         => ret.value = arg.body.value
    /\ arg.body.kind = "throw" /\ arg.body.type # "int" => ret.value = -1
    /\ op \in {"lsetup", "lsolve"}
         /\ arg.calls[1].kind = "return" /\ arg.calls[1].value # 0
         => ret.value # 0

\* an int thrown in jtimes went past both handlers
IntEscapedJtimes ==
  /\ op = "jtimes"
  /\ arg.body = Throws("int", 1)
  /\ ret = Escaped(Throws("int", 1))

===========================================================================
